---- MODULE Spec2Model ----
(***************************************************************************)
(* Model of the telemetry package: SetupOTelSDKStdout and SetupOTelSDKGrpc *)
(* together with the helpers handleErr and shutdown.                       *)
(*                                                                         *)
(* The two setup functions are run side by side, one call each, against    *)
(* the same outcomes of the library constructors and of the providers'     *)
(* Shutdown methods.  Each call has its own copy of the process-wide       *)
(* registry (the calls stand for two separate runs of a program).          *)
(* A call is followed step by step (pc), because the claims are about the  *)
(* order of the steps inside one call and about Go's deferred calls.       *)
(***************************************************************************)
EXTENDS Naturals, Sequences, FiniteSets

VARIABLES
    outcome,        \* which library calls succeed (TRUE) or fail (FALSE)
    pc,             \* position of each setup call / its caller
    err,            \* the named result err of each setup call
    shutdownRet,    \* the named result shutdown of each setup call
    conn,           \* Grpc: the local conn ("nil" or "conn")
    handle,         \* tracerProvider / shutdownTracerProvider, meter likewise
    propagator,     \* otel global text map propagator
    registered,     \* providers registered as process-wide defaults
    provState,      \* "none" (not created), "live", "shut" (Shutdown invoked)
    events,         \* log of provider registrations and Shutdown invocations
    defers,         \* stack of deferred closures of the setup call
    panicking,      \* a nil function value was called in the setup call
    hlocal,         \* handleErr's parameter err (a copy local to handleErr)
    helperInvoked,  \* cleanup callbacks invoked by the helper shutdown(ctx)
    done            \* construction steps executed so far, in order

vars == <<outcome, pc, err, shutdownRet, conn, handle, propagator, registered,
          provState, events, defers, panicking, hlocal, helperInvoked, done>>

F == {"Stdout", "Grpc"}
Providers == {"tracer", "meter"}
Steps == {"conn", "res", "traceExp", "metricExp", "tpShutdown", "mpShutdown"}

\* ---- errors -----------------------------------------------------------
\* An error value is the sequence of the leaf errors it wraps; nil is <<>>.
NoErr == <<>>
\* errors.Join drops nil operands and is nil when all are nil.
Join(a, b) == a \o b
\* errors.Is(e, x) for a leaf error x
Contains(e, x) == \E i \in 1..Len(e) : e[i] = x

ErrOf(step) == <<step>>
Result(step) == IF outcome[step] THEN NoErr ELSE ErrOf(step)

ShutdownStep(p) == IF p = "tracer" THEN "tpShutdown" ELSE "mpShutdown"
ShutdownEvent(p) == IF p = "tracer" THEN "Shutdown_tracer" ELSE "Shutdown_meter"
RegisterEvent(p) == IF p = "tracer" THEN "SetTracerProvider" ELSE "SetMeterProvider"

\* provider.Shutdown(ctx): the provider is shut down, the call may fail
ProviderShutdown(p, st) ==
    [prov    |-> [st.prov EXCEPT ![p] = "shut"],
     events  |-> Append(st.events, ShutdownEvent(p)),
     err     |-> Join(st.err, Result(ShutdownStep(p))),
     invoked |-> Append(st.invoked, p)]

\* ---- the helper shutdown(ctx) ----------------------------------------
shutdownFuncsPopulated == <<"meter", "tracer">>
\* make([]func(context.Context) error, 0): nothing is ever appended
shutdownFuncs == <<>>

RECURSIVE RangeShutdownFuncs(_, _)
RangeShutdownFuncs(fs, st) ==
    IF fs = <<>> THEN st
    ELSE RangeShutdownFuncs(Tail(fs), ProviderShutdown(Head(fs), st))

\* shutdown(ctx) run in call f: the state it leaves, .err is its result
shutdown(f) ==
    RangeShutdownFuncs(shutdownFuncs,
        [prov |-> provState[f], events |-> events[f],
         err |-> NoErr, invoked |-> <<>>])

\* ---- deferred calls --------------------------------------------------
NextDeferredFIFO(ds) == 1
\* Go runs deferred calls last-in first-out
NextDeferred(ds) == Len(ds)

RemoveAt(s, i) == SubSeq(s, 1, i - 1) \o SubSeq(s, i + 1, Len(s))

\* ---- control flow ----------------------------------------------------
Start(f) == IF f = "Grpc" THEN "conn" ELSE "res"
HLabels == {"h_conn", "h_res", "h_tp", "h_mp", "h_defer"}
Terminal == {"returned", "panicked", "caller_panicked"}

\* where the setup function continues after a handleErr call: "defers"
\* is a return statement (the deferred calls run), anything else falls through
AfterHandleErr(f, l) ==
    CASE l = "h_conn"  -> "res"
      [] l = "h_res"   -> "defers"
      [] l = "h_tp"    -> IF f = "Stdout" THEN "defers" ELSE "tp_defer"
      [] l = "h_mp"    -> IF f = "Stdout" THEN "defers" ELSE "mp_defer"
      [] l = "h_defer" -> "defers"

Init ==
    /\ outcome \in [Steps -> BOOLEAN]
    /\ pc = [f \in F |-> Start(f)]
    /\ err = [f \in F |-> NoErr]
    /\ shutdownRet = [f \in F |-> "nil"]
    /\ conn = [f \in F |-> "nil"]
    /\ handle = [f \in F |-> [p \in Providers |-> "nil"]]
    /\ propagator = [f \in F |-> "none"]
    /\ registered = [f \in F |-> {}]
    /\ provState = [f \in F |-> [p \in Providers |-> "none"]]
    /\ events = [f \in F |-> <<>>]
    /\ defers = [f \in F |-> <<>>]
    /\ panicking = [f \in F |-> FALSE]
    /\ hlocal = [f \in F |-> NoErr]
    /\ helperInvoked = [f \in F |-> <<>>]
    /\ done = [f \in F |-> <<>>]

\* conn, err := initConn(); if err != nil { handleErr(err, ctx) }
InitConn(f) ==
    /\ f = "Grpc" /\ pc[f] = "conn"
    /\ done' = [done EXCEPT ![f] = Append(@, "conn")]
    /\ err' = [err EXCEPT ![f] = Result("conn")]
    /\ conn' = [conn EXCEPT ![f] = IF outcome["conn"] THEN "conn" ELSE "nil"]
    /\ IF outcome["conn"]
         THEN pc' = [pc EXCEPT ![f] = "res"] /\ UNCHANGED hlocal
         ELSE /\ pc' = [pc EXCEPT ![f] = "h_conn"]
              /\ hlocal' = [hlocal EXCEPT ![f] = ErrOf("conn")]
    /\ UNCHANGED <<outcome, shutdownRet, handle, propagator, registered,
                   provState, events, defers, panicking, helperInvoked>>

\* res, err := resource.New(...); if err != nil { handleErr(err, ctx); return }
NewResource(f) ==
    /\ pc[f] = "res"
    /\ done' = [done EXCEPT ![f] = Append(@, "res")]
    /\ err' = [err EXCEPT ![f] = Result("res")]
    /\ IF outcome["res"]
         THEN pc' = [pc EXCEPT ![f] = "prop"] /\ UNCHANGED hlocal
         ELSE /\ pc' = [pc EXCEPT ![f] = "h_res"]
              /\ hlocal' = [hlocal EXCEPT ![f] = ErrOf("res")]
    /\ UNCHANGED <<outcome, shutdownRet, conn, handle, propagator, registered,
                   provState, events, defers, panicking, helperInvoked>>

\* prop := newPropagator(); otel.SetTextMapPropagator(prop)
SetPropagator(f) ==
    /\ pc[f] = "prop"
    /\ propagator' = [propagator EXCEPT ![f] = "composite"]
    /\ pc' = [pc EXCEPT ![f] = "tp"]
    /\ UNCHANGED <<outcome, err, shutdownRet, conn, handle, registered,
                   provState, events, defers, panicking, hlocal,
                   helperInvoked, done>>

\* tracerProvider, err := newTraceProvider(res)
\* if err != nil { handleErr(err, ctx); return }
NewTraceProvider(f) ==
    /\ f = "Stdout" /\ pc[f] = "tp"
    /\ done' = [done EXCEPT ![f] = Append(@, "traceExp")]
    /\ err' = [err EXCEPT ![f] = Result("traceExp")]
    /\ IF outcome["traceExp"]
         THEN /\ handle' = [handle EXCEPT ![f]["tracer"] = "fn"]
              /\ provState' = [provState EXCEPT ![f]["tracer"] = "live"]
              /\ pc' = [pc EXCEPT ![f] = "tp_defer"]
              /\ UNCHANGED hlocal
         ELSE /\ pc' = [pc EXCEPT ![f] = "h_tp"]
              /\ hlocal' = [hlocal EXCEPT ![f] = ErrOf("traceExp")]
              /\ UNCHANGED <<handle, provState>>
    /\ UNCHANGED <<outcome, shutdownRet, conn, propagator, registered,
                   events, defers, panicking, helperInvoked>>

\* shutdownTracerProvider, err := initTracerProvider(ctx, res, conn)
\* if err != nil { handleErr(err, ctx) }
InitTracerProvider(f) ==
    /\ f = "Grpc" /\ pc[f] = "tp"
    /\ done' = [done EXCEPT ![f] = Append(@, "traceExp")]
    /\ err' = [err EXCEPT ![f] = Result("traceExp")]
    /\ IF outcome["traceExp"]
         THEN /\ handle' = [handle EXCEPT ![f]["tracer"] = "fn"]
              /\ provState' = [provState EXCEPT ![f]["tracer"] = "live"]
              /\ registered' = [registered EXCEPT ![f] = @ \cup {"tracer"}]
              /\ events' = [events EXCEPT ![f] = Append(@, RegisterEvent("tracer"))]
              /\ propagator' = [propagator EXCEPT ![f] = "tracecontext"]
              /\ pc' = [pc EXCEPT ![f] = "tp_defer"]
              /\ UNCHANGED hlocal
         ELSE /\ pc' = [pc EXCEPT ![f] = "h_tp"]
              /\ hlocal' = [hlocal EXCEPT ![f] = ErrOf("traceExp")]
              /\ UNCHANGED <<handle, provState, registered, events, propagator>>
    /\ UNCHANGED <<outcome, shutdownRet, conn, defers, panicking, helperInvoked>>

\* defer func() { if err := <tracer>.Shutdown(ctx); ... }(); the Stdout
\* variant then registers the provider: otel.SetTracerProvider(tracerProvider)
DeferTracerShutdown(f) ==
    /\ pc[f] = "tp_defer"
    /\ defers' = [defers EXCEPT ![f] = Append(@, "tracer")]
    /\ IF f = "Stdout"
         THEN /\ registered' = [registered EXCEPT ![f] = @ \cup {"tracer"}]
              /\ events' = [events EXCEPT ![f] = Append(@, RegisterEvent("tracer"))]
         ELSE UNCHANGED <<registered, events>>
    /\ pc' = [pc EXCEPT ![f] = "mp"]
    /\ UNCHANGED <<outcome, err, shutdownRet, conn, handle, propagator,
                   provState, panicking, hlocal, helperInvoked, done>>

\* defer func() { if err := <meter>.Shutdown(ctx); ... }(); the Stdout
\* variant then registers the provider: otel.SetMeterProvider(meterProvider);
\* the return statement follows
DeferMeterShutdown(f) ==
    /\ pc[f] = "mp_defer"
    /\ defers' = [defers EXCEPT ![f] = Append(@, "meter")]
    /\ IF f = "Stdout"
         THEN /\ registered' = [registered EXCEPT ![f] = @ \cup {"meter"}]
              /\ events' = [events EXCEPT ![f] = Append(@, RegisterEvent("meter"))]
         ELSE UNCHANGED <<registered, events>>
    /\ pc' = [pc EXCEPT ![f] = "defers"]
    /\ UNCHANGED <<outcome, err, shutdownRet, conn, handle, propagator,
                   provState, panicking, hlocal, helperInvoked, done>>

\* meterProvider, err := newMeterProvider(res)
\* if err != nil { handleErr(err, ctx); return }
NewMeterProvider(f) ==
    /\ f = "Stdout" /\ pc[f] = "mp"
    /\ done' = [done EXCEPT ![f] = Append(@, "metricExp")]
    /\ err' = [err EXCEPT ![f] = Result("metricExp")]
    /\ IF outcome["metricExp"]
         THEN /\ handle' = [handle EXCEPT ![f]["meter"] = "fn"]
              /\ provState' = [provState EXCEPT ![f]["meter"] = "live"]
              /\ pc' = [pc EXCEPT ![f] = "mp_defer"]
              /\ UNCHANGED hlocal
         ELSE /\ pc' = [pc EXCEPT ![f] = "h_mp"]
              /\ hlocal' = [hlocal EXCEPT ![f] = ErrOf("metricExp")]
              /\ UNCHANGED <<handle, provState>>
    /\ UNCHANGED <<outcome, shutdownRet, conn, propagator, registered,
                   events, defers, panicking, helperInvoked>>

\* shutdownMeterProvider, err := initMeterProvider(ctx, res, conn)
\* if err != nil { handleErr(err, ctx) }
InitMeterProvider(f) ==
    /\ f = "Grpc" /\ pc[f] = "mp"
    /\ done' = [done EXCEPT ![f] = Append(@, "metricExp")]
    /\ err' = [err EXCEPT ![f] = Result("metricExp")]
    /\ IF outcome["metricExp"]
         THEN /\ handle' = [handle EXCEPT ![f]["meter"] = "fn"]
              /\ provState' = [provState EXCEPT ![f]["meter"] = "live"]
              /\ registered' = [registered EXCEPT ![f] = @ \cup {"meter"}]
              /\ events' = [events EXCEPT ![f] = Append(@, RegisterEvent("meter"))]
              /\ pc' = [pc EXCEPT ![f] = "mp_defer"]
              /\ UNCHANGED hlocal
         ELSE /\ pc' = [pc EXCEPT ![f] = "h_mp"]
              /\ hlocal' = [hlocal EXCEPT ![f] = ErrOf("metricExp")]
              /\ UNCHANGED <<handle, provState, registered, events>>
    /\ UNCHANGED <<outcome, shutdownRet, conn, propagator, defers, panicking,
                   helperInvoked>>

\* handleErr(err, ctx): if err != nil { err = errors.Join(err, shutdown(ctx)) }
\* err is handleErr's own parameter; the caller's err is another variable.
HandleErr(f) ==
    /\ pc[f] \in HLabels
    /\ LET r == shutdown(f) IN
         IF hlocal[f] # NoErr
           THEN /\ hlocal' = [hlocal EXCEPT ![f] = Join(@, r.err)]
                /\ provState' = [provState EXCEPT ![f] = r.prov]
                /\ events' = [events EXCEPT ![f] = r.events]
                /\ helperInvoked' = [helperInvoked EXCEPT ![f] = @ \o r.invoked]
           ELSE UNCHANGED <<hlocal, provState, events, helperInvoked>>
    /\ pc' = [pc EXCEPT ![f] = AfterHandleErr(f, pc[f])]
    /\ UNCHANGED <<outcome, err, shutdownRet, conn, handle, propagator,
                   registered, defers, panicking, done>>

\* On return (or while panicking) the next deferred closure runs:
\*   if err := X.Shutdown(ctx); err != nil { handleErr(err, ctx) }
\* where err is a new variable of the closure.  Calling a nil function
\* value panics; the remaining deferred calls still run.
RunDeferred(f) ==
    /\ pc[f] = "defers" /\ defers[f] # <<>>
    /\ LET i == NextDeferred(defers[f])
           p == defers[f][i]
           r == ProviderShutdown(p, [prov |-> provState[f], events |-> events[f],
                                     err |-> NoErr, invoked |-> <<>>])
       IN /\ defers' = [defers EXCEPT ![f] = RemoveAt(@, i)]
          /\ IF handle[f][p] = "nil"
               THEN /\ panicking' = [panicking EXCEPT ![f] = TRUE]
                    /\ UNCHANGED <<provState, events, hlocal, pc>>
               ELSE /\ provState' = [provState EXCEPT ![f] = r.prov]
                    /\ events' = [events EXCEPT ![f] = r.events]
                    /\ IF r.err # NoErr
                         THEN /\ hlocal' = [hlocal EXCEPT ![f] = r.err]
                              /\ pc' = [pc EXCEPT ![f] = "h_defer"]
                         ELSE UNCHANGED <<hlocal, pc>>
                    /\ UNCHANGED panicking
    /\ UNCHANGED <<outcome, err, shutdownRet, conn, handle, propagator,
                   registered, helperInvoked, done>>

\* all deferred calls have run: the call returns (shutdown, err) to its
\* caller, or the panic propagates to the caller
Return(f) ==
    /\ pc[f] = "defers" /\ defers[f] = <<>>
    /\ pc' = [pc EXCEPT ![f] = IF panicking[f] THEN "panicked" ELSE "returned"]
    /\ UNCHANGED <<outcome, err, shutdownRet, conn, handle, propagator,
                   registered, provState, events, defers, panicking, hlocal,
                   helperInvoked, done>>

\* "If it does not return an error, make sure to call shutdown for proper
\* cleanup": the caller calls the returned function value.
CallerInvokesShutdown(f) ==
    /\ pc[f] = "returned" /\ err[f] = NoErr
    /\ shutdownRet[f] = "nil"
    /\ pc' = [pc EXCEPT ![f] = "caller_panicked"]
    /\ UNCHANGED <<outcome, err, shutdownRet, conn, handle, propagator,
                   registered, provState, events, defers, panicking, hlocal,
                   helperInvoked, done>>

Next ==
    \E f \in F :
        \/ InitConn(f)
        \/ NewResource(f)
        \/ SetPropagator(f)
        \/ NewTraceProvider(f)
        \/ InitTracerProvider(f)
        \/ DeferTracerShutdown(f)
        \/ NewMeterProvider(f)
        \/ InitMeterProvider(f)
        \/ DeferMeterShutdown(f)
        \/ HandleErr(f)
        \/ RunDeferred(f)
        \/ Return(f)
        \/ CallerInvokesShutdown(f)

Spec == Init /\ [][Next]_vars

\* ---- properties ------------------------------------------------------
\* position of the first occurrence of e in the log s, 0 when absent
Pos(s, e) == IF \E i \in 1..Len(s) : s[i] = e
               THEN CHOOSE i \in 1..Len(s) : s[i] = e /\ \A j \in 1..(i - 1) : s[j] # e
               ELSE 0

Invoked(f, p) == Pos(events[f], ShutdownEvent(p)) > 0
ConstructionOK == \A s \in {"conn", "res", "traceExp", "metricExp"} : outcome[s]

\* C1: whenever a setup call returns with err == nil, the returned shutdown
\* value is a non-nil function (and calling it shuts down the providers the
\* call created).
C1_ShutdownNonNil ==
    \A f \in F : (pc[f] = "returned" /\ err[f] = NoErr) => shutdownRet[f] # "nil"

\* C2: a construction step that fails is the last construction step that is
\* executed, and the call then returns to its caller with a non-nil err that
\* carries that failure.
C2_FailureAborts ==
    \A f \in F : \A i \in 1..Len(done[f]) :
        ~outcome[done[f][i]] =>
            /\ i = Len(done[f])
            /\ pc[f] # "panicked"
            /\ pc[f] = "returned" => Contains(err[f], done[f][i])

\* C3: after a setup call returns without error, no provider it created has
\* been shut down: Shutdown is not invoked by the setup call itself.
C3_NotShutDownBySetup ==
    \A f \in F : (pc[f] = "returned" /\ err[f] = NoErr) =>
        \A p \in Providers : provState[f][p] # "shut"

\* C4: when every constructor succeeds, the setup call returns err == nil
\* and the returned shutdown function can be called without a panic.
C4_SuccessGivesCallableShutdown ==
    \A f \in F : ConstructionOK =>
        /\ pc[f] \notin {"panicked", "caller_panicked"}
        /\ pc[f] = "returned" => err[f] = NoErr

\* C5: in every execution in which both providers were created, Shutdown is
\* invoked in reverse order of registration: once the tracer provider's
\* Shutdown has been invoked, the meter provider's was invoked before it.
C5_ReverseOrder ==
    \A f \in F :
        (/\ provState[f]["tracer"] # "none"
         /\ provState[f]["meter"] # "none"
         /\ Invoked(f, "tracer")) =>
            /\ Invoked(f, "meter")
            /\ Pos(events[f], ShutdownEvent("meter")) < Pos(events[f], ShutdownEvent("tracer"))

C5_Witness ==
    \A f \in F : /\ pc[f] = "returned"
                 /\ provState[f] = [p \in Providers |-> "shut"]
                 /\ events[f][Len(events[f])] = ShutdownEvent("tracer")

\* C6 (as stated): in every execution where both providers are shut down,
\* tracerProvider.Shutdown is invoked before meterProvider.Shutdown.
C6_TracerFirst ==
    \A f \in F :
        (Invoked(f, "tracer") /\ Invoked(f, "meter")) =>
            Pos(events[f], ShutdownEvent("tracer")) < Pos(events[f], ShutdownEvent("meter"))

\* C6 (amended): in every execution where both providers are shut down,
\* meterProvider.Shutdown is invoked before tracerProvider.Shutdown.
C6_MeterFirst ==
    \A f \in F :
        (provState[f]["tracer"] = "shut" /\ provState[f]["meter"] = "shut") =>
            Pos(events[f], ShutdownEvent("meter")) < Pos(events[f], ShutdownEvent("tracer"))

C6_Witness ==
    \E f \in F : /\ events[f] = <<RegisterEvent("tracer"), RegisterEvent("meter"),
                                 ShutdownEvent("meter"), ShutdownEvent("tracer")>>
                 /\ pc[f] = "h_defer"
                 /\ defers[f] = <<>>

\* C7: when both providers' Shutdown fail, both are still invoked and both
\* errors are contained in the err that reaches the caller.
C7_ShutdownErrorsReachCaller ==
    \A f \in F :
        (/\ pc[f] = "returned"
         /\ \A p \in Providers : provState[f][p] # "none" /\ ~outcome[ShutdownStep(p)]) =>
            /\ \A p \in Providers : Invoked(f, p)
            /\ \A p \in Providers : Contains(err[f], ShutdownStep(p))

Observable(f) ==
    [propagator |-> propagator[f],
     events     |-> events[f],
     registered |-> registered[f],
     outcome    |-> IF pc[f] = "panicked" THEN <<"panic">>
                    ELSE <<"return", shutdownRet[f], err[f]>>]

Finished(f) == pc[f] \in Terminal

\* C9: with the gRPC connection succeeding (abstracted away) and the same
\* outcome of every corresponding step, the two setup functions leave the
\* same propagator and registrations, the same Shutdown invocations and the
\* same result.
C9_SameObservableBehaviour ==
    (outcome["conn"] /\ \A f \in F : Finished(f)) =>
        Observable("Stdout") = Observable("Grpc")

\* C10: SetupOTelSDKGrpc never calls a nil function value: every shutdown
\* handle a deferred call invokes is non-nil, the setup call never panics.
C10_GrpcNeverCallsNil ==
    ~panicking["Grpc"] /\ pc["Grpc"] # "panicked"

TypeOK ==
    /\ outcome \in [Steps -> BOOLEAN]
    /\ \A f \in F :
        /\ pc[f] \in {"conn", "res", "prop", "tp", "tp_defer", "mp", "mp_defer",
                      "defers"} \cup HLabels \cup Terminal
        /\ shutdownRet[f] \in {"nil", "fn"}
        /\ conn[f] \in {"nil", "conn"}
        /\ propagator[f] \in {"none", "composite", "tracecontext"}
        /\ registered[f] \subseteq Providers
        /\ panicking[f] \in BOOLEAN
        /\ \A p \in Providers : /\ handle[f][p] \in {"nil", "fn"}
                                /\ provState[f][p] \in {"none", "live", "shut"}
====
